---- MODULE Spec2Model ----
(***************************************************************************)
(* A model of the macaroon bakery service (bakery/service.go).             *)
(*                                                                         *)
(* Strings are sequences of tokens: a token stands for a run of bytes      *)
(* holding neither a space nor a comma, and " " and "," are tokens of      *)
(* their own, so that splitting on the first space is done as the code     *)
(* does it.  Byte strings that are only compared (keys) are plain tokens.  *)
(*                                                                         *)
(* HMAC and encryption are symbolic: a signature is the sequence of the    *)
(* links that were hashed into it, so that two signatures are equal        *)
(* exactly when they were computed from the same key and the same data.    *)
(***************************************************************************)
EXTENDS Integers, Sequences, FiniteSets, TLC

\* ------------------------------------------------------------------------
\* Strings, keys, errors
\* ------------------------------------------------------------------------
SP == " "
EmptyStr == <<>>
NilKey == "nil"                       \* a nil []byte root key
BindMark == "#bind"                   \* marks a hash under the zero key
GenMark == "#gen"

RootKeys == {"k1"}                    \* root keys supplied by callers
RandKeys == {"r1"}                    \* root keys drawn by randomBytes
CavKeys == {"ck1", "ck2"}                   \* caveat root keys drawn by randomBytes
GivenIds == {<<"m1">>}                \* ids supplied by callers
RandIds == {<<"x1">>}                 \* hex ids drawn by randomBytes
AllKeys == RootKeys \cup RandKeys \cup CavKeys
AllIds == GivenIds \cup RandIds

\* randomBytes(n): the values a draw can take in the model.
randomBytes(S) == S

NoErr == [typ |-> "nil", cause |-> "nil", reason |-> ""]
\* &VerificationError{Reason: ...}
VerificationError(reason) ==
  [typ |-> "VerificationError", cause |-> "VerificationError", reason |-> reason]
\* errgo.New / errgo.Newf / fmt.Errorf: an error that is its own cause.
ErrNew(reason) == [typ |-> "error", cause |-> "error", reason |-> reason]
\* errgo.Notef(err, ...): masks the cause, the new error is its own cause.
ErrNotef(err, msg) == [typ |-> "error", cause |-> "error", reason |-> msg]
isVerificationError(cause) == cause = "VerificationError"
\* errgo.Mask(err, pass): wraps err; the cause is kept when pass holds of it.
\* the kinds of cause an error can have
Causes == {"VerificationError", "ErrNotFound", "ErrCaveatNotRecognized", "error", "panic"}
ErrMask(err, pass) ==
  IF err.typ = "nil" THEN NoErr
  ELSE [typ |-> "error",
        cause |-> IF err.cause \in pass THEN err.cause ELSE "error",
        reason |-> err.reason]
\* errgo.Any lets every cause through
ErrAny == Causes

\* ------------------------------------------------------------------------
\* Key pairs and the public key locator
\* ------------------------------------------------------------------------
KeyPair(pub) == [Public |-> pub, Private |-> "priv-" \o pub]
PublicKeys == {"pkS", "pkA", "pkC"}
LocS == <<"S">>
LocA == <<"A">>
LocB == <<"B">>
\* PublicKeyLocatorMap: location -> public key; B is not in the map.
locatorS == [loc \in {LocA} |-> "pkA"]
ErrNotFound == [typ |-> "error", cause |-> "ErrNotFound", reason |-> "item not found"]
PublicKeyForLocation(locator, loc) ==
  IF loc \in DOMAIN locator
  THEN [key |-> locator[loc], err |-> NoErr]
  ELSE [key |-> "", err |-> ErrNotFound]

\* ------------------------------------------------------------------------
\* The caveat language (bakery/checkers)
\* ------------------------------------------------------------------------
CondDeclared == <<"declared">>
CondNeedDeclared == <<"need-declared">>
\* strings.Index(s, tok): Go's 0-based index of the first tok, -1 if none
RECURSIVE IndexFrom(_, _, _)
IndexFrom(s, tok, i) ==
  IF i > Len(s) THEN -1
  ELSE IF s[i] = tok THEN i - 1
  ELSE IndexFrom(s, tok, i + 1)
Index(s, tok) == IndexFrom(s, tok, 1)
\* s[a:b] and s[a:] with Go's 0-based bounds
Slice(s, a, b) == SubSeq(s, a + 1, b)
SliceFrom(s, a) == SubSeq(s, a + 1, Len(s))
\* strings.Split(s, tok)
RECURSIVE Split(_, _)
Split(s, tok) ==
  LET i == Index(s, tok) IN
  IF i < 0 THEN <<s>>
  ELSE <<Slice(s, 0, i)>> \o Split(SliceFrom(s, i + 1), tok)
\* strings.SplitN(s, tok, 2)
SplitN2(s, tok) ==
  LET i == Index(s, tok) IN
  IF i < 0 THEN <<s>> ELSE <<Slice(s, 0, i), SliceFrom(s, i + 1)>>
\* checkers.ParseCaveat(cav): the condition and its argument, split on the
\* first space
ParseCaveat(cav) ==
  LET i == Index(cav, SP) IN
  IF cav = EmptyStr THEN [cond |-> EmptyStr, arg |-> EmptyStr, err |-> "empty caveat"]
  ELSE IF i < 0 THEN [cond |-> cav, arg |-> EmptyStr, err |-> ""]
  ELSE IF i = 0 THEN [cond |-> EmptyStr, arg |-> EmptyStr, err |-> "caveat starts with space character"]
  ELSE [cond |-> Slice(cav, 0, i), arg |-> SliceFrom(cav, i + 1), err |-> ""]
\* checkers.Caveat{Location, Condition}
Caveat(loc, cond) == [Location |-> loc, Condition |-> cond]
\* checkers.DeclaredCaveat(key, value)
DeclaredCaveat(key, value) == Caveat(EmptyStr, CondDeclared \o <<SP>> \o key \o <<SP>> \o value)

\* ------------------------------------------------------------------------
\* The macaroon primitive (gopkg.in/macaroon.v1)
\* ------------------------------------------------------------------------
Link(k, rk, cid) == [k |-> k, rk |-> rk, cid |-> cid]
NoVid == [k |-> <<>>, rk |-> ""]
\* makeKey(rootKey) = HMAC("macaroons-key-generator", rootKey)
makeKey(rootKey) == <<Link(<<>>, GenMark, <<rootKey>>)>>
\* keyedHash(key, data) = HMAC(key, data)
keyedHash(key, data) == Append(key, Link(<<>>, "", data))
\* keyedHash2(key, d1, d2) = HMAC(key, HMAC(key, d1) || HMAC(key, d2))
keyedHash2(key, vid, cid) == Append(key, Link(vid.k, vid.rk, cid))
\* encrypt(sig, derived key of rootKey): opened only under the same sig
encrypt(sig, rootKey) == [k |-> sig, rk |-> rootKey]
\* bindForRequest(rootSig, dischargeSig)
bindForRequest(rootSig, dischargeSig) ==
  IF rootSig = dischargeSig THEN rootSig
  ELSE <<Link(rootSig, BindMark, <<>>)>> \o dischargeSig

\* macaroon.New(rootKey, id, loc)
MacaroonNew(rootKey, id, loc) ==
  [location |-> loc, id |-> id, caveats |-> <<>>,
   sig |-> keyedHash(makeKey(rootKey), id)]
\* m.AddFirstPartyCaveat(condition)
AddFirstPartyCaveat(m, condition) ==
  [m EXCEPT !.caveats = Append(@, [cid |-> condition, vid |-> NoVid, location |-> EmptyStr]),
            !.sig = keyedHash2(@, NoVid, condition)]
\* m.AddThirdPartyCaveat(rootKey, caveatId, loc)
AddThirdPartyCaveat(m, rootKey, caveatId, loc) ==
  LET vid == encrypt(m.sig, rootKey) IN
  [m EXCEPT !.caveats = Append(@, [cid |-> caveatId, vid |-> vid, location |-> loc]),
            !.sig = keyedHash2(@, vid, caveatId)]
\* m.Bind(sig)
Bind(m, sig) == [m EXCEPT !.sig = bindForRequest(sig, @)]
isThirdParty(cav) == cav.vid # NoVid
Min(S) == CHOOSE x \in S : \A y \in S : x <= y

\* A first-party checker accepts the conditions of conds (mode "accept") or
\* every condition outside conds (mode "reject"); checkers.New(declared,
\* checker) has mode "multi".
FPChecker(mode, conds) == [mode |-> mode, conds |-> conds]
AcceptAll == FPChecker("reject", {})
\* checkers.Declared.Check(arg): the map holds name = value
DeclaredCheck(declared, arg) ==
  LET parts == SplitN2(arg, SP) IN
  IF Len(parts) # 2 THEN ErrNew("declared caveat has no value")
  ELSE IF parts[1] \in DOMAIN declared /\ declared[parts[1]] = parts[2] THEN NoErr
  ELSE ErrNew("caveat not satisfied")
\* checkers.New(declared, checker): the declared map answers the declared
\* conditions, the checker the other ones
New(declared, checker) == [mode |-> "multi", declared |-> declared, inner |-> checker]
CheckFirstPartyCaveat(checker, cond) ==
  IF checker.mode = "multi"
  THEN IF ParseCaveat(cond).cond = CondDeclared
       THEN DeclaredCheck(checker.declared, ParseCaveat(cond).arg)
       ELSE IF (checker.inner.mode = "accept") = (cond \in checker.inner.conds)
            THEN NoErr ELSE ErrNew("caveat not satisfied")
  ELSE IF (checker.mode = "accept") = (cond \in checker.conds)
       THEN NoErr ELSE ErrNew("caveat not satisfied")

\* m.verify(rootSig, rootKey, check, discharges, used), from caveat i on,
\* caveatSig being the signature of the caveats before i.  calls collects
\* the conditions handed to the first-party checker.
RECURSIVE verify(_, _, _, _, _, _, _, _)
verify(m, i, caveatSig, rootSig, checker, discharges, used, calls) ==
  IF i > Len(m.caveats)
  THEN [err |-> IF bindForRequest(rootSig, caveatSig) = m.sig THEN ""
                ELSE "signature mismatch after caveat verification",
        used |-> used, calls |-> calls]
  ELSE LET cav == m.caveats[i]
           next == keyedHash2(caveatSig, cav.vid, cav.cid) IN
    IF isThirdParty(cav)
    THEN IF cav.vid.k # caveatSig
         THEN [err |-> "failed to decrypt caveat signature", used |-> used, calls |-> calls]
         ELSE LET found == {di \in 1..Len(discharges) : discharges[di].id = cav.cid} IN
           IF found = {}
           THEN [err |-> "cannot find discharge macaroon for caveat", used |-> used, calls |-> calls]
           ELSE LET di == Min(found)
                    dm == discharges[di]
                    used1 == [used EXCEPT ![di] = @ + 1] IN
             IF used1[di] > 1
             THEN [err |-> "discharge macaroon was used more than once", used |-> used1, calls |-> calls]
             ELSE LET r == verify(dm, 1, keyedHash(makeKey(cav.vid.rk), dm.id), rootSig,
                                  checker, discharges, used1, calls) IN
               IF r.err # "" THEN r
               ELSE verify(m, i + 1, next, rootSig, checker, discharges, r.used, r.calls)
    ELSE LET calls1 == Append(calls, cav.cid) IN
         IF CheckFirstPartyCaveat(checker, cav.cid).typ # "nil"
         THEN [err |-> "caveat not satisfied", used |-> used, calls |-> calls1]
         ELSE verify(m, i + 1, next, rootSig, checker, discharges, used, calls1)

\* m.Verify(rootKey, check, discharges)
Verify(m, rootKey, checker, discharges) ==
  verify(m, 1, keyedHash(makeKey(rootKey), m.id), m.sig, checker, discharges,
         [di \in 1..Len(discharges) |-> 0], <<>>)

\* ------------------------------------------------------------------------
\* The box encoder of third-party caveat ids
\* ------------------------------------------------------------------------
BoxMark == "box2"
\* encoder.encodeCaveatId(condition, rootKey, thirdPartyPub)
encodeCaveatId(condition, rootKey, thirdPartyPub) ==
  <<BoxMark, thirdPartyPub, rootKey>> \o condition
\* decoder.decodeCaveatId(id) with the decoder's key pair
decodeCaveatId(key, id) ==
  IF Len(id) >= 3 /\ id[1] = BoxMark /\ id[2] = key.Public
  THEN [rootKey |-> id[3], condition |-> SubSeq(id, 4, Len(id)), err |-> NoErr]
  ELSE [rootKey |-> "", condition |-> EmptyStr,
        err |-> ErrNew("public key mismatch")]

\* ------------------------------------------------------------------------
\* The service
\* ------------------------------------------------------------------------
\* NewService leaving the locator of its parameters out
NewService_DropsLocator(p) ==
  [location |-> p.Location,
   hasStore |-> p.Store,
   key |-> p.Key,
   encoder |-> [key |-> p.Key],
   locator |-> [loc \in {} |-> ""]]
\* NewService(p): the fields of the service; store tells whether a store
\* was given.
NewService(p) ==
  [location |-> p.Location,
   hasStore |-> p.Store,
   key |-> p.Key,
   encoder |-> [key |-> p.Key],
   locator |-> p.Locator]
\* the service that mints and checks
ParamsS == [Location |-> LocS, Store |-> TRUE, Key |-> KeyPair("pkS"), Locator |-> locatorS]
\* the authorization service that discharges (authService): no store
ParamsA == [Location |-> LocA, Store |-> FALSE, Key |-> KeyPair("pkA"),
            Locator |-> [loc \in {} |-> ""]]
svcA == NewService(ParamsA)
\* an authorization service at A whose key ring holds A
ParamsARing == [Location |-> LocA, Store |-> FALSE, Key |-> KeyPair("pkA"),
                Locator |-> locatorS]
svcARing == NewService(ParamsARing)

\* key.UnmarshalText(text): a public key in text form
UnmarshalText(text) ==
  IF Len(text) = 1 /\ text[1] \in PublicKeys
  THEN [key |-> text[1], err |-> NoErr]
  ELSE [key |-> "", err |-> ErrNew("wrong length for base64 key")]
HasPrefixLocal(loc) == Len(loc) >= 2 /\ loc[1] = "local" /\ loc[2] = SP
\* LocalThirdPartyCaveat(key)
LocalThirdPartyCaveat(key) == Caveat(<<"local", SP, key>>, EmptyStr)

\* AddCaveat encoding another root key in the caveat id than the one the
\* caveat is added with
AddCaveat_OtherRootKey(svc, m, cav, rootKey) ==
  IF cav.Location = EmptyStr
  THEN [m |-> AddFirstPartyCaveat(m, cav.Condition), err |-> NoErr, lookups |-> <<>>]
  ELSE LET pub == PublicKeyForLocation(svc.locator, cav.Location) IN
    IF pub.err.typ # "nil"
    THEN [m |-> m, err |-> ErrNotef(pub.err, "cannot find public key for location"),
          lookups |-> <<cav.Location>>]
    ELSE [m |-> AddThirdPartyCaveat(m, rootKey,
                  encodeCaveatId(cav.Condition, NilKey, pub.key), cav.Location),
          err |-> NoErr, lookups |-> <<cav.Location>>]
\* AddCaveat appending the caveat before it asks the locator
AddCaveat_AppendsFirst(svc, m, cav, rootKey) ==
  IF cav.Location = EmptyStr
  THEN [m |-> AddFirstPartyCaveat(m, cav.Condition), err |-> NoErr, lookups |-> <<>>]
  ELSE LET pub == PublicKeyForLocation(svc.locator, cav.Location)
           id == encodeCaveatId(cav.Condition, rootKey, pub.key) IN
    [m |-> AddThirdPartyCaveat(m, rootKey, id, cav.Location),
     err |-> IF pub.err.typ # "nil"
             THEN ErrNotef(pub.err, "cannot find public key for location") ELSE NoErr,
     lookups |-> <<cav.Location>>]
\* AddCaveat encoding the condition of a local caveat as it is given
AddCaveat_LocalKeepsCondition(svc, m, cav, rootKey) ==
  IF cav.Location = EmptyStr
  THEN [m |-> AddFirstPartyCaveat(m, cav.Condition), err |-> NoErr, lookups |-> <<>>]
  ELSE LET isLocal == HasPrefixLocal(cav.Location)
           pub == IF isLocal THEN UnmarshalText(SliceFrom(cav.Location, 2))
                  ELSE PublicKeyForLocation(svc.locator, cav.Location)
           lookups == IF isLocal THEN <<>> ELSE <<cav.Location>> IN
    IF pub.err.typ # "nil"
    THEN [m |-> m, err |-> ErrNotef(pub.err, "cannot find public key"), lookups |-> lookups]
    ELSE [m |-> AddThirdPartyCaveat(m, rootKey,
                  encodeCaveatId(cav.Condition, rootKey, pub.key),
                  IF isLocal THEN <<"local">> ELSE cav.Location),
          err |-> NoErr, lookups |-> lookups]
\* svc.AddCaveat(m, cav); rootKey is the draw of randomBytes(24); lookups
\* are the locations the locator was asked for.
AddCaveat(svc, m, cav, rootKey) ==
  IF cav.Location = EmptyStr
  THEN [m |-> AddFirstPartyCaveat(m, cav.Condition), err |-> NoErr, lookups |-> <<>>]
  ELSE LET isLocal == HasPrefixLocal(cav.Location)
           pub == IF isLocal THEN UnmarshalText(SliceFrom(cav.Location, 2))
                  ELSE PublicKeyForLocation(svc.locator, cav.Location)
           lookups == IF isLocal THEN <<>> ELSE <<cav.Location>> IN
    IF pub.err.typ # "nil"
    THEN [m |-> m,
          err |-> ErrNotef(pub.err, IF isLocal
                    THEN "cannot unmarshal client's public key in local third-party caveat"
                    ELSE "cannot find public key for location"),
          lookups |-> lookups]
    ELSE IF isLocal /\ cav.Condition # EmptyStr
    THEN [m |-> m, err |-> ErrNew("cannot specify caveat condition in local third-party caveat"),
          lookups |-> lookups]
    ELSE LET loc == IF isLocal THEN <<"local">> ELSE cav.Location
             cond == IF isLocal THEN <<"true">> ELSE cav.Condition
             id == encodeCaveatId(cond, rootKey, pub.key) IN
      [m |-> AddThirdPartyCaveat(m, rootKey, id, loc), err |-> NoErr, lookups |-> lookups]

\* for _, cav := range caveats { svc.AddCaveat(m, cav) }, stopping at the
\* first error; rnd[i] is the draw of randomBytes for caveat i.
RECURSIVE addCaveats(_, _, _, _, _)
addCaveats(svc, m, caveats, rnd, i) ==
  IF i > Len(caveats) THEN [m |-> m, err |-> NoErr]
  ELSE LET r == AddCaveat(svc, m, caveats[i], IF i \in DOMAIN rnd THEN rnd[i] ELSE NilKey) IN
    IF r.err.typ # "nil"
    THEN [m |-> r.m, err |-> ErrNotef(r.err, "cannot add caveat")]
    ELSE addCaveats(svc, r.m, caveats, rnd, i + 1)

\* ------------------------------------------------------------------------
\* Discharging
\* ------------------------------------------------------------------------
NoMacaroon == [location |-> EmptyStr, id |-> EmptyStr, caveats |-> <<>>, sig |-> <<>>]
ErrCaveatNotRecognized ==
  [typ |-> "error", cause |-> "ErrCaveatNotRecognized", reason |-> "caveat not recognized"]
\* A third-party checker accepts the conditions of accept and returns
\* caveats for them; it does not recognise any other condition.
TPChecker(accept, caveats) == [accept |-> accept, caveats |-> caveats]
\* checker.CheckThirdPartyCaveat(caveatId, caveat)
CheckThirdPartyCaveat(checker, caveatId, caveat) ==
  IF caveat \in checker.accept
  THEN [caveats |-> checker.caveats, err |-> NoErr, checked |-> <<caveat>>]
  ELSE [caveats |-> <<>>, err |-> ErrCaveatNotRecognized, checked |-> <<caveat>>]

\* the loop over the checker's caveats of checkNeedDeclared: the names
\* declared so far, or an error
RECURSIVE declaredNames(_, _, _)
declaredNames(caveats, i, declared) ==
  IF i > Len(caveats) THEN [declared |-> declared, err |-> NoErr]
  ELSE LET cav == caveats[i]
           p == ParseCaveat(cav.Condition)
           parts == SplitN2(p.arg, SP) IN
    IF cav.Location # EmptyStr \/ p.cond # CondDeclared
    THEN declaredNames(caveats, i + 1, declared)
    ELSE IF Len(parts) # 2
    THEN [declared |-> declared, err |-> ErrNew("declared caveat has no value")]
    ELSE declaredNames(caveats, i + 1, declared \cup {parts[1]})
\* the loop over needDeclared of checkNeedDeclared
RECURSIVE addEmptyDeclarations(_, _, _, _)
addEmptyDeclarations(caveats, needDeclared, declared, i) ==
  IF i > Len(needDeclared) THEN caveats
  ELSE addEmptyDeclarations(
         IF needDeclared[i] \in declared THEN caveats
         ELSE Append(caveats, DeclaredCaveat(needDeclared[i], EmptyStr)),
         needDeclared, declared, i + 1)

\* checkNeedDeclared adding an empty declaration for every name
checkNeedDeclared_AddsAll(caveatId, arg, checker) ==
  LET i == Index(arg, SP)
      needDeclared == Split(Slice(arg, 0, i), ",")
      r == CheckThirdPartyCaveat(checker, caveatId, SliceFrom(arg, i + 1)) IN
  IF i <= 0 \/ \E j \in 1..Len(needDeclared) : needDeclared[j] = EmptyStr
  THEN [caveats |-> <<>>, err |-> ErrNew("need-declared caveat requires an argument"),
        checked |-> <<>>]
  ELSE IF r.err.typ # "nil"
  THEN [caveats |-> <<>>, err |-> ErrMask(r.err, ErrAny), checked |-> r.checked]
  ELSE [caveats |-> addEmptyDeclarations(r.caveats, needDeclared, {}, 1),
        err |-> NoErr, checked |-> r.checked]
\* checkNeedDeclared calling the checker before it looks at the names
checkNeedDeclared_ChecksFirst(caveatId, arg, checker) ==
  LET i == Index(arg, SP)
      needDeclared == Split(Slice(arg, 0, i), ",")
      r == CheckThirdPartyCaveat(checker, caveatId, SliceFrom(arg, i + 1))
      d == declaredNames(r.caveats, 1, {}) IN
  IF r.err.typ # "nil"
  THEN [caveats |-> <<>>, err |-> ErrMask(r.err, ErrAny), checked |-> r.checked]
  ELSE IF i <= 0 \/ \E j \in 1..Len(needDeclared) : needDeclared[j] = EmptyStr
  THEN [caveats |-> <<>>, err |-> ErrNew("need-declared caveat requires an argument"),
        checked |-> r.checked]
  ELSE IF d.err.typ # "nil"
  THEN [caveats |-> <<>>, err |-> d.err, checked |-> r.checked]
  ELSE [caveats |-> addEmptyDeclarations(r.caveats, needDeclared, d.declared, 1),
        err |-> NoErr, checked |-> r.checked]
\* checkNeedDeclared(caveatId, arg, checker)
checkNeedDeclared(caveatId, arg, checker) ==
  LET i == Index(arg, SP)
      needDeclared == Split(Slice(arg, 0, i), ",")
      r == CheckThirdPartyCaveat(checker, caveatId, SliceFrom(arg, i + 1))
      d == declaredNames(r.caveats, 1, {}) IN
  IF i <= 0
  THEN [caveats |-> <<>>, err |-> ErrNew("need-declared caveat requires an argument"),
        checked |-> <<>>]
  ELSE IF \E j \in 1..Len(needDeclared) : needDeclared[j] = EmptyStr
  THEN [caveats |-> <<>>, err |-> ErrNew("need-declared caveat with empty required attribute"),
        checked |-> <<>>]
  ELSE IF Len(needDeclared) = 0
  THEN [caveats |-> <<>>, err |-> ErrNew("need-declared caveat with no required attributes"),
        checked |-> <<>>]
  ELSE IF r.err.typ # "nil"
  THEN [caveats |-> <<>>, err |-> ErrMask(r.err, ErrAny), checked |-> r.checked]
  ELSE IF d.err.typ # "nil"
  THEN [caveats |-> <<>>, err |-> d.err, checked |-> r.checked]
  ELSE [caveats |-> addEmptyDeclarations(r.caveats, needDeclared, d.declared, 1),
        err |-> NoErr, checked |-> r.checked]

\* Discharge hiding the cause of the checker's error
Discharge_MasksCause(key, checker, id) ==
  LET d == decodeCaveatId(key, id)
      p == ParseCaveat(d.condition)
      r == IF p.cond = CondNeedDeclared
           THEN checkNeedDeclared(id, p.arg, checker)
           ELSE CheckThirdPartyCaveat(checker, id, d.condition) IN
  IF d.err.typ # "nil"
  THEN [m |-> NoMacaroon, caveats |-> <<>>, checked |-> <<>>,
        err |-> ErrNotef(d.err, "discharger cannot decode caveat id")]
  ELSE IF r.err.typ # "nil"
  THEN [m |-> NoMacaroon, caveats |-> <<>>, checked |-> r.checked,
        err |-> ErrMask(r.err, {})]
  ELSE [m |-> MacaroonNew(d.rootKey, id, EmptyStr), caveats |-> r.caveats,
        checked |-> r.checked, err |-> NoErr]
\* Discharge(key, checker, id)
Discharge(key, checker, id) ==
  LET d == decodeCaveatId(key, id)
      p == ParseCaveat(d.condition)
      r == IF p.cond = CondNeedDeclared
           THEN checkNeedDeclared(id, p.arg, checker)
           ELSE CheckThirdPartyCaveat(checker, id, d.condition) IN
  IF d.err.typ # "nil"
  THEN [m |-> NoMacaroon, caveats |-> <<>>, checked |-> <<>>,
        err |-> ErrNotef(d.err, "discharger cannot decode caveat id")]
  ELSE IF r.err.typ # "nil"
  THEN [m |-> NoMacaroon, caveats |-> <<>>, checked |-> r.checked,
        err |-> ErrMask(r.err, ErrAny)]
  ELSE [m |-> MacaroonNew(d.rootKey, id, EmptyStr), caveats |-> r.caveats,
        checked |-> r.checked, err |-> NoErr]

\* svc.Discharge returning the macaroon as far as it got when AddCaveat fails
addDischargeCaveats_KeepsPartial(svc, d, rnd) ==
  LET a == addCaveats(svc, d.m, d.caveats, rnd, 1) IN
  IF d.err.typ # "nil"
  THEN [m |-> NoMacaroon, err |-> ErrMask(d.err, ErrAny), checked |-> d.checked,
        puts |-> <<>>]
  ELSE [m |-> a.m, err |-> NoErr, checked |-> d.checked, puts |-> <<>>]
\* the second half of svc.Discharge: svc.AddCaveat(m, cav) for every caveat
\* the checker returned; d is what Discharge returned; puts are the calls
\* of store.Put, of which there is none
addDischargeCaveats(svc, d, rnd) ==
  LET a == addCaveats(svc, d.m, d.caveats, rnd, 1) IN
  IF d.err.typ # "nil"
  THEN [m |-> NoMacaroon, err |-> ErrMask(d.err, ErrAny), checked |-> d.checked,
        puts |-> <<>>]
  ELSE IF a.err.typ # "nil"
  THEN [m |-> NoMacaroon, err |-> a.err, checked |-> d.checked, puts |-> <<>>]
  ELSE [m |-> a.m, err |-> NoErr, checked |-> d.checked, puts |-> <<>>]
\* svc.Discharge saving the root key of the discharge macaroon in the store
ServiceDischarge_Persists(svc, checker, id, rnd) ==
  LET k == decodeCaveatId(svc.encoder.key, id).rootKey IN
  [addDischargeCaveats(svc, Discharge(svc.encoder.key, checker, id), rnd)
     EXCEPT !.puts = IF svc.hasStore THEN <<[id |-> id, rootKey |-> k]>> ELSE <<>>]
\* svc.Discharge(checker, id); rnd holds the draws of randomBytes of the
\* AddCaveat calls.
ServiceDischarge(svc, checker, id, rnd) ==
  addDischargeCaveats(svc, Discharge(svc.encoder.key, checker, id), rnd)

\* ------------------------------------------------------------------------
\* Storage (bakery/storage.go): macaroon id -> storageItem{RootKey}
\* ------------------------------------------------------------------------
storageItem(rootKey) == [RootKey |-> rootKey]
\* store.Put keeping the entry an id has already
StorePut_KeepsExisting(st, id, item) ==
  [k \in DOMAIN st \cup {id} |-> IF k \in DOMAIN st THEN st[k] ELSE item]
\* store.Put(id, item)
StorePut(st, id, item) == [k \in DOMAIN st \cup {id} |-> IF k = id THEN item ELSE st[k]]
\* store.Get(id)
StoreGet(st, id) ==
  IF id \in DOMAIN st THEN [item |-> st[id], err |-> NoErr]
  ELSE [item |-> storageItem(NilKey), err |-> ErrNotFound]
\* store.Del(id)
StoreDelete(st, id) == [k \in DOMAIN st \ {id} |-> st[k]]

\* ------------------------------------------------------------------------
\* Minting and checking
\* ------------------------------------------------------------------------
\* NewMacaroon saving the root key it was given, not the one it used
NewMacaroon_SavesGivenKey(svc, id, rootKey, caveats, newRootKey, idBytes, rnd) ==
  LET rk == IF rootKey = NilKey THEN newRootKey ELSE rootKey
      mid == IF id = EmptyStr THEN idBytes ELSE id
      a == addCaveats(svc, MacaroonNew(rk, mid, svc.location), caveats, rnd, 1) IN
  IF a.err.typ # "nil"
  THEN [m |-> NoMacaroon, err |-> a.err, put |-> FALSE, rootKey |-> rootKey]
  ELSE [m |-> a.m, err |-> NoErr, put |-> svc.hasStore, rootKey |-> rootKey]
\* NewMacaroon saving the root key before it adds the caveats
NewMacaroon_PutsFirst(svc, id, rootKey, caveats, newRootKey, idBytes, rnd) ==
  LET rk == IF rootKey = NilKey THEN newRootKey ELSE rootKey
      mid == IF id = EmptyStr THEN idBytes ELSE id
      a == addCaveats(svc, MacaroonNew(rk, mid, svc.location), caveats, rnd, 1) IN
  [m |-> a.m, err |-> a.err, put |-> svc.hasStore, rootKey |-> rk]
\* svc.NewMacaroon(id, rootKey, caveats); newRootKey, idBytes and rnd are
\* the draws of randomBytes.
NewMacaroon(svc, id, rootKey, caveats, newRootKey, idBytes, rnd) ==
  LET rk == IF rootKey = NilKey THEN newRootKey ELSE rootKey
      mid == IF id = EmptyStr THEN idBytes ELSE id
      a == addCaveats(svc, MacaroonNew(rk, mid, svc.location), caveats, rnd, 1) IN
  IF a.err.typ # "nil"
  THEN [m |-> NoMacaroon, err |-> a.err, put |-> FALSE, rootKey |-> rk]
  ELSE [m |-> a.m, err |-> NoErr, put |-> svc.hasStore, rootKey |-> rk]

\* CheckWithKey binding the discharges to the primary by itself
CheckWithKey_Binds(ms, rootKey, checker) ==
  IF Len(ms) = 0
  THEN [err |-> VerificationError("no macaroons in slice"), calls |-> <<>>,
        verified |-> FALSE]
  ELSE LET v == Verify(ms[1], rootKey, checker,
                       [i \in 1..(Len(ms) - 1) |-> Bind(ms[i + 1], ms[1].sig)]) IN
    [err |-> IF v.err # "" THEN VerificationError(v.err) ELSE NoErr, calls |-> v.calls,
     verified |-> TRUE]
\* CheckWithKey letting a missing discharge pass
CheckWithKey_MissingPasses(ms, rootKey, checker) ==
  IF Len(ms) = 0
  THEN [err |-> VerificationError("no macaroons in slice"), calls |-> <<>>,
        verified |-> FALSE]
  ELSE LET v == Verify(ms[1], rootKey, checker, Tail(ms)) IN
    [err |-> IF v.err \notin {"", "cannot find discharge macaroon for caveat"}
             THEN VerificationError(v.err) ELSE NoErr,
     calls |-> v.calls, verified |-> TRUE]
\* CheckWithKey returning the error of Verify as it is
CheckWithKey_Unwrapped(ms, rootKey, checker) ==
  IF Len(ms) = 0
  THEN [err |-> VerificationError("no macaroons in slice"), calls |-> <<>>,
        verified |-> FALSE]
  ELSE LET v == Verify(ms[1], rootKey, checker, Tail(ms)) IN
    [err |-> IF v.err # "" THEN ErrNew(v.err) ELSE NoErr, calls |-> v.calls,
     verified |-> TRUE]
\* CheckWithKey dropping the error of Verify
CheckWithKey_ErrDropped(ms, rootKey, checker) ==
  IF Len(ms) = 0
  THEN [err |-> VerificationError("no macaroons in slice"), calls |-> <<>>,
        verified |-> FALSE]
  ELSE [err |-> NoErr, calls |-> Verify(ms[1], rootKey, checker, Tail(ms)).calls,
        verified |-> TRUE]
\* svc.CheckWithKey(ms, rootKey, checker)
CheckWithKey(ms, rootKey, checker) ==
  IF Len(ms) = 0
  THEN [err |-> VerificationError("no macaroons in slice"), calls |-> <<>>,
        verified |-> FALSE]
  ELSE LET v == Verify(ms[1], rootKey, checker, Tail(ms)) IN
    [err |-> IF v.err # "" THEN VerificationError(v.err) ELSE NoErr, calls |-> v.calls,
     verified |-> TRUE]

ErrPanic == [typ |-> "panic", cause |-> "panic", reason |-> "bakery: Store is not specified"]
\* Check going on with a nil root key when the store has no entry
Check_MissGoesOn(svc, st, ms, checker) ==
  IF Len(ms) = 0
  THEN [err |-> VerificationError("no macaroons in slice"), calls |-> <<>>,
        verified |-> FALSE]
  ELSE CheckWithKey(ms, StoreGet(st, ms[1].id).item.RootKey, checker)
\* svc.Check(ms, checker)
Check(svc, st, ms, checker) ==
  IF Len(ms) = 0
  THEN [err |-> VerificationError("no macaroons in slice"), calls |-> <<>>,
        verified |-> FALSE]
  ELSE IF ~svc.hasStore THEN [err |-> ErrPanic, calls |-> <<>>, verified |-> FALSE]
  ELSE LET g == StoreGet(st, ms[1].id) IN
    IF g.err.typ # "nil"
    THEN IF g.err.cause = "ErrNotFound"
         THEN [err |-> VerificationError("macaroon not found in storage"),
               calls |-> <<>>, verified |-> FALSE]
         ELSE [err |-> ErrNotef(g.err, "cannot get macaroon"), calls |-> <<>>,
               verified |-> FALSE]
    ELSE CheckWithKey(ms, g.item.RootKey, checker)

\* checkers.InferDeclared(ms): the scan of the first-party caveats of the
\* macaroons from macaroon mi, caveat ci on; info holds the values found and
\* conflicts the names found with two values.
RECURSIVE inferFrom(_, _, _, _, _)
inferFrom(ms, mi, ci, info, conflicts) ==
  IF mi > Len(ms)
  THEN [n \in DOMAIN info |-> IF n \in conflicts THEN EmptyStr ELSE info[n]]
  ELSE IF ci > Len(ms[mi].caveats) THEN inferFrom(ms, mi + 1, 1, info, conflicts)
  ELSE LET cav == ms[mi].caveats[ci]
           p == ParseCaveat(cav.cid)
           parts == SplitN2(p.arg, SP) IN
    IF isThirdParty(cav) \/ p.err # "" \/ p.cond # CondDeclared \/ Len(parts) # 2
    THEN inferFrom(ms, mi, ci + 1, info, conflicts)
    ELSE IF parts[1] \in DOMAIN info /\ info[parts[1]] # parts[2]
    THEN inferFrom(ms, mi, ci + 1, info, conflicts \cup {parts[1]})
    ELSE inferFrom(ms, mi, ci + 1,
                   [n \in DOMAIN info \cup {parts[1]} |->
                      IF n = parts[1] THEN parts[2] ELSE info[n]],
                   conflicts)
EmptyMap == [n \in {} |-> EmptyStr]
InferDeclared(ms) == inferFrom(ms, 1, 1, EmptyMap, {})

\* the overlay keeping the inferred value of a key that assert holds too
Overlay_InferredWins(declared, assert) ==
  [n \in DOMAIN declared \cup DOMAIN assert |->
     IF n \in DOMAIN declared THEN declared[n] ELSE assert[n]]
\* for key, val := range assert { declared[key] = val }
Overlay(declared, assert) ==
  [n \in DOMAIN declared \cup DOMAIN assert |->
     IF n \in DOMAIN assert THEN assert[n] ELSE declared[n]]
NilMap == [isNil |-> TRUE, map |-> EmptyMap]
NilSlice == [isNil |-> TRUE, ms |-> <<>>]

\* the loop of CheckAnyM from candidate i on; err is the error of the
\* candidate before, tries what was done for each candidate so far
RECURSIVE checkAnyFrom(_, _, _, _, _, _, _, _)
checkAnyFrom(svc, st, mss, assert, checker, i, err, tries) ==
  IF i > Len(mss)
  THEN [attrs |-> NilMap, ms |-> NilSlice, err |-> ErrMask(err, {c \in Causes : isVerificationError(c)}),
        tries |-> tries]
  ELSE LET declared == Overlay(InferDeclared(mss[i]), assert)
           r == Check(svc, st, mss[i], New(declared, checker))
           t == Append(tries, [declared |-> declared, err |-> r.err, calls |-> r.calls]) IN
    IF r.err = NoErr
    THEN [attrs |-> [isNil |-> FALSE, map |-> declared],
          ms |-> [isNil |-> FALSE, ms |-> mss[i]], err |-> NoErr, tries |-> t]
    ELSE checkAnyFrom(svc, st, mss, assert, checker, i + 1, r.err, t)

Reverse(q) == [j \in 1..Len(q) |-> q[Len(q) + 1 - j]]
\* CheckAnyM trying the candidates from the last one
CheckAnyM_LastFirst(svc, st, mss, assert, checker) ==
  IF Len(mss) = 0
  THEN [attrs |-> NilMap, ms |-> NilSlice, err |-> VerificationError("no macaroons"),
        tries |-> <<>>]
  ELSE checkAnyFrom(svc, st, Reverse(mss), assert, checker, 1, NoErr, <<>>)
\* CheckAnyM returning the error of the first candidate
CheckAnyM_FirstError(svc, st, mss, assert, checker) ==
  IF Len(mss) = 0
  THEN [attrs |-> NilMap, ms |-> NilSlice, err |-> VerificationError("no macaroons"),
        tries |-> <<>>]
  ELSE LET r == checkAnyFrom(svc, st, mss, assert, checker, 1, NoErr, <<>>) IN
    IF r.err = NoErr THEN r
    ELSE [r EXCEPT !.err = ErrMask(r.tries[1].err, {c \in Causes : isVerificationError(c)})]
\* svc.CheckAnyM(mss, assert, checker)
CheckAnyM(svc, st, mss, assert, checker) ==
  IF Len(mss) = 0
  THEN [attrs |-> NilMap, ms |-> NilSlice, err |-> VerificationError("no macaroons"),
        tries |-> <<>>]
  ELSE checkAnyFrom(svc, st, mss, assert, checker, 1, NoErr, <<>>)

\* svc.CheckAny(mss, assert, checker)
CheckAny(svc, st, mss, assert, checker) ==
  LET r == CheckAnyM(svc, st, mss, assert, checker) IN
  [attrs |-> r.attrs, err |-> r.err]

\* ------------------------------------------------------------------------
\* State
\* ------------------------------------------------------------------------
VARIABLES
  service,   \* the fields of the minting service
  store,     \* the contents of its store
  pool,      \* the macaroons clients hold
  minted,    \* history: the minted macaroons whose store entry is untouched
  last       \* the last call and what it returned; with concurrent callers,
             \* the call each of them is in

vars == <<service, store, pool, minted, last>>

\* Inputs of the calls
CondC1 == <<"c1">>
CondC2 == <<"c2">>
CondAccess == <<"access-allowed">>
FirstC1 == Caveat(EmptyStr, CondC1)
FirstC2 == Caveat(EmptyStr, CondC2)
ThirdA == Caveat(LocA, CondAccess)      \* the locator knows A
ThirdB == Caveat(LocB, CondAccess)      \* the locator does not know B
SeqsUpTo(S, n) == UNION {[1..k -> S] : k \in 0..n}
FPCheckers == {AcceptAll, FPChecker("accept", {CondC1}), FPChecker("accept", {})}
TPCheckers == {TPChecker({CondAccess}, <<>>), TPChecker({}, <<>>)}
BindDepth(m) == Cardinality({i \in 1..Len(m.sig) : m.sig[i].rk = BindMark})
ThirdPartyIds(m) ==
  {m.caveats[i].cid : i \in {j \in 1..Len(m.caveats) : isThirdParty(m.caveats[j])}}

\* no call is under way
Idle == [op |-> "idle"]
\* the positions of caveats for which AddCaveat draws a root key
DrawsAt(caveats) == {i \in 1..Len(caveats) : caveats[i].Location # EmptyStr}

Init ==
  /\ service = NewService(ParamsS)
  /\ store = [k \in {} |-> storageItem(NilKey)]
  /\ pool = {}
  /\ minted = {}
  /\ last = Idle

\* a call of service.NewMacaroon(id, rootKey, caveats)
CallNewMacaroon(ids, rootKeys, caveatSeqs, maxPool) ==
  \E id \in ids, rootKey \in rootKeys, caveats \in caveatSeqs :
  \E newRootKey \in randomBytes(RandKeys), idBytes \in randomBytes(RandIds),
     rnd \in [DrawsAt(caveats) -> randomBytes(CavKeys)] :
    LET r == NewMacaroon(service, id, rootKey, caveats, newRootKey, idBytes, rnd)
        ok == r.err.typ = "nil" IN
    /\ last = Idle
    /\ ok => (r.m \in pool \/ Cardinality(pool) < maxPool)
    /\ store' = IF r.put THEN StorePut(store, r.m.id, storageItem(r.rootKey)) ELSE store
    /\ pool' = IF ok THEN pool \cup {r.m} ELSE pool
    /\ minted' = IF r.put THEN {x \in minted : x.id # r.m.id} \cup {r.m} ELSE minted
    /\ last' = [op |-> "NewMacaroon", id |-> id, rootKey |-> rootKey,
                caveats |-> caveats, m |-> r.m, err |-> r.err]
    /\ UNCHANGED service

\* the store drops an entry (expiry)
StoreDel ==
  \E id \in DOMAIN store :
    /\ last = Idle
    /\ store' = StoreDelete(store, id)
    /\ minted' = {x \in minted : x.id # id}
    /\ last' = [op |-> "Del", id |-> id]
    /\ UNCHANGED <<service, pool>>

\* the authorization service discharges a caveat of a macaroon a client holds
CallDischarge(checkers, maxPool) ==
  \E p \in pool : \E id \in ThirdPartyIds(p) : \E checker \in checkers :
    \E r \in {ServiceDischarge(svcA, checker, id, <<>>)} :
    LET ok == r.err.typ = "nil" IN
    /\ last = Idle
    /\ ok => (r.m \in pool \/ Cardinality(pool) < maxPool)
    /\ pool' = IF ok THEN pool \cup {r.m} ELSE pool
    /\ last' = [op |-> "Discharge", id |-> id, checker |-> checker, m |-> r.m,
                err |-> r.err, checked |-> r.checked]
    /\ UNCHANGED <<service, store, minted>>

\* a client binds a discharge it holds and has not bound yet to the
\* signature of a macaroon it holds: d.Bind(p.sig)
CallBind ==
  \E d \in pool, p \in pool :
    /\ last = Idle
    /\ d.location = EmptyStr /\ p.location # EmptyStr
    /\ BindDepth(d) = 0
    /\ pool' = (pool \ {d}) \cup {Bind(d, p.sig)}
    /\ last' = [op |-> "Bind", d |-> d, sig |-> p.sig]
    /\ UNCHANGED <<service, store, minted>>

\* the caller takes the result of its call
Return ==
  /\ last # Idle
  /\ last' = Idle
  /\ UNCHANGED <<service, store, pool, minted>>

CallCheck(maxSlice, checkers) ==
  \E ms \in SeqsUpTo(pool, maxSlice), checker \in checkers :
    LET r == Check(service, store, ms, checker) IN
    /\ last = Idle
    /\ last' = [op |-> "Check", ms |-> ms, checker |-> checker,
                err |-> r.err, calls |-> r.calls, verified |-> r.verified]
    /\ UNCHANGED <<service, store, pool, minted>>

CallCheckWithKey(maxSlice, checkers, rootKeys) ==
  \E ms \in SeqsUpTo(pool, maxSlice), checker \in checkers, rootKey \in rootKeys :
    LET r == CheckWithKey(ms, rootKey, checker) IN
    /\ last = Idle
    /\ last' = [op |-> "CheckWithKey", ms |-> ms, rootKey |-> rootKey,
                checker |-> checker, err |-> r.err, calls |-> r.calls,
                verified |-> r.verified]
    /\ UNCHANGED <<service, store, pool, minted>>

\* a call of service.AddCaveat(m, cav) on a macaroon a client holds; the
\* macaroon is changed in place
CallAddCaveat(cavs, draws, maxCavs) ==
  \E m \in pool, cav \in cavs, rootKey \in randomBytes(draws) :
    \E r \in {AddCaveat(service, m, cav, rootKey)} :
    /\ last = Idle
    /\ Len(m.caveats) < maxCavs
    /\ pool' = (pool \ {m}) \cup {r.m}
    /\ minted' = IF m \in minted THEN (minted \ {m}) \cup {r.m} ELSE minted
    /\ last' = [op |-> "AddCaveat", m |-> m, cav |-> cav, rootKey |-> rootKey,
                res |-> r.m, err |-> r.err, lookups |-> r.lookups]
    /\ UNCHANGED <<service, store>>

\* a call of Discharge(key, checker, id) for a caveat id; the client keeps
\* the discharge when it has room for it
CallFreeDischarge(keys, ids, checkers, maxPool) ==
  \E key \in keys, id \in ids, checker \in checkers :
    \E r \in {Discharge(key, checker, id)} :
    /\ last = Idle
    /\ pool' = IF r.err.typ = "nil" /\ Cardinality(pool) < maxPool
               THEN pool \cup {r.m} ELSE pool
    /\ last' = [op |-> "FreeDischarge", key |-> key, id |-> id, checker |-> checker,
                m |-> r.m, caveats |-> r.caveats, err |-> r.err, checked |-> r.checked]
    /\ UNCHANGED <<service, store, minted>>

\* the store after the calls of store.Put a handler made
RECURSIVE applyPuts(_, _, _)
applyPuts(st, puts, i) ==
  IF i > Len(puts) THEN st
  ELSE applyPuts(StorePut(st, puts[i].id, storageItem(puts[i].rootKey)), puts, i + 1)
\* a call of svc.Discharge(checker, id) on one of the services svcs
CallDischargeBy(svcs, ids, checkers, draws, maxPool) ==
  \E svc \in svcs, id \in ids, checker \in checkers :
    \E d \in {Discharge(svc.encoder.key, checker, id)} :
    \E rnd \in [DrawsAt(d.caveats) -> randomBytes(draws)] :
    \E r \in {ServiceDischarge(svc, checker, id, rnd)} :
    /\ last = Idle
    /\ pool' = IF r.err.typ = "nil" /\ Cardinality(pool) < maxPool
               THEN pool \cup {r.m} ELSE pool
    /\ last' = [op |-> "ServiceDischarge", svc |-> svc, id |-> id, checker |-> checker,
                rnd |-> rnd, m |-> r.m, err |-> r.err, checked |-> r.checked]
    /\ store' = IF svc = service THEN applyPuts(store, r.puts, 1) ELSE store
    /\ UNCHANGED <<service, minted>>

\* ------------------------------------------------------------------------
\* Minting and checking macaroons with first-party caveats
\* ------------------------------------------------------------------------
MaxCavs == 2        \* caveats passed to one NewMacaroon call
MaxPool == 2        \* macaroons held by clients at one time
MaxSlice == 1       \* macaroons in a slice presented to Check

MintNext ==
  CallNewMacaroon(GivenIds \cup {EmptyStr}, RootKeys \cup {NilKey},
                  SeqsUpTo({FirstC1, ThirdB}, MaxCavs), MaxPool)
CheckNext == CallCheck(MaxSlice, FPCheckers)

Next ==
  \/ MintNext
  \/ StoreDel
  \/ CheckNext
  \/ Return

Spec == Init /\ [][Next]_vars

\* ------------------------------------------------------------------------
\* Third-party caveats: minting, discharging, binding, checking
\* ------------------------------------------------------------------------
TPMaxPool == 3      \* macaroons held by clients at one time
TPMaxSlice == 2     \* macaroons in a slice presented to Check
TPMintSeqs == {<<ThirdA>>, <<FirstC1, ThirdA>>}
TPFPCheckers == {AcceptAll, FPChecker("accept", {})}

TPMint == CallNewMacaroon(GivenIds, RootKeys, TPMintSeqs, TPMaxPool)
TPDischarge == CallDischarge(TPCheckers, TPMaxPool)
TPBind == CallBind
TPCheck == CallCheck(TPMaxSlice, TPFPCheckers)
TPCheckWithKey == CallCheckWithKey(TPMaxSlice, TPFPCheckers, RootKeys \cup RandKeys)

NextTP ==
  \/ TPMint
  \/ StoreDel
  \/ TPDischarge
  \/ TPBind
  \/ TPCheck
  \/ TPCheckWithKey
  \/ Return

SpecTP == Init /\ [][NextTP]_vars

\* ------------------------------------------------------------------------
\* Macaroons changed on their way back to the service
\* ------------------------------------------------------------------------
FMaxPool == 2       \* macaroons held by clients at one time
FMintSeqs ==
  {<<>>, <<FirstC1>>, <<FirstC1, FirstC2>>, <<ThirdA>>, <<FirstC1, ThirdA>>}

RemoveAt(q, i) == SubSeq(q, 1, i - 1) \o SubSeq(q, i + 1, Len(q))
SwapAt(q, i) == [j \in 1..Len(q) |-> IF j = i THEN q[i + 1] ELSE IF j = i + 1 THEN q[i] ELSE q[j]]
\* the macaroons that differ from m by one change: of the id, of the
\* condition or id of one caveat, by one caveat removed, by two neighbouring
\* caveats exchanged, or of the signature (to one of sigs or to one cut short)
Tamperings(m, sigs) ==
  ( {[m EXCEPT !.id = id] : id \in AllIds}
    \cup {[m EXCEPT !.caveats[i].cid = c] : i \in 1..Len(m.caveats), c \in {CondC1, CondC2}}
    \cup {[m EXCEPT !.caveats = RemoveAt(@, i)] : i \in 1..Len(m.caveats)}
    \cup {[m EXCEPT !.caveats = SwapAt(@, i)] : i \in 1..(Len(m.caveats) - 1)}
    \cup {[m EXCEPT !.sig = g] : g \in sigs \cup {SubSeq(m.sig, 1, Len(m.sig) - 1)}}
  ) \ {m}
PoolSigs == {p.sig : p \in pool}

\* a minted macaroon a client holds is changed
Tamper(maxPool) ==
  \E m \in pool \cap minted : \E x \in Tamperings(m, PoolSigs) :
    /\ last = Idle
    /\ x \in pool \/ Cardinality(pool) < maxPool
    /\ pool' = pool \cup {x}
    /\ last' = [op |-> "Tamper", from |-> m, to |-> x]
    /\ UNCHANGED <<service, store, minted>>

FMint ==
  CallNewMacaroon(GivenIds, RootKeys \cup {NilKey}, FMintSeqs, FMaxPool)
FTamper == Tamper(FMaxPool)
FCheckWithKey == CallCheckWithKey(1, {AcceptAll}, RootKeys \cup RandKeys)

NextForge ==
  \/ FMint
  \/ FTamper
  \/ FCheckWithKey
  \/ Return

SpecForge == Init /\ [][NextForge]_vars

\* ------------------------------------------------------------------------
\* CheckAny over candidate slices with declared caveats
\* ------------------------------------------------------------------------
AnyMaxPool == 2     \* macaroons held by clients at one time
AnyMaxCands == 2    \* candidate slices passed to one CheckAny call

Username == <<"username">>
Alice == <<"alice">>
Bob == <<"bob">>
CondDeclAlice == CondDeclared \o <<SP>> \o Username \o <<SP>> \o Alice
CondDeclBob == CondDeclared \o <<SP>> \o Username \o <<SP>> \o Bob
DeclAlice == DeclaredCaveat(Username, Alice)
DeclBob == DeclaredCaveat(Username, Bob)
AnyMintSeqs == {<<FirstC1>>, <<DeclAlice>>, <<DeclBob>>, <<DeclAlice, DeclBob>>}
AssertAlice == [n \in {Username} |-> Alice]
\* the candidates: the empty slice and the single macaroons clients hold
AnySlices == {<<>>} \cup {<<m>> : m \in pool}

CallCheckAny(maxCands, asserts, checkers) ==
  \E mss \in SeqsUpTo(AnySlices, maxCands), assert \in asserts, checker \in checkers :
    LET rm == CheckAnyM(service, store, mss, assert, checker)
        r == CheckAny(service, store, mss, assert, checker) IN
    /\ last = Idle
    /\ last' = [op |-> "CheckAny", mss |-> mss, assert |-> assert, checker |-> checker,
                attrs |-> r.attrs, err |-> r.err, ms |-> rm.ms, tries |-> rm.tries]
    /\ UNCHANGED <<service, store, pool, minted>>

AnyMint == CallNewMacaroon(GivenIds \cup {EmptyStr}, RootKeys, AnyMintSeqs, AnyMaxPool)
AnyCheckAny ==
  CallCheckAny(AnyMaxCands, {EmptyMap, AssertAlice}, {AcceptAll, FPChecker("accept", {})})

NextAny ==
  \/ AnyMint
  \/ StoreDel
  \/ AnyCheckAny
  \/ Return

SpecAny == Init /\ [][NextAny]_vars

\* ------------------------------------------------------------------------
\* Adding caveats to macaroons
\* ------------------------------------------------------------------------
AddMaxPool == 1     \* macaroons held by clients at one time
AddMaxCavs == 2     \* caveats of a macaroon AddCaveat is called on

CondTrue == <<"true">>
LocalC == LocalThirdPartyCaveat("pkC")
LocalCond == Caveat(LocalC.Location, CondC1)            \* a condition is given
LocalBadKey == Caveat(<<"local", SP, "zz">>, EmptyStr)  \* not a public key
LocalNoKey == Caveat(<<"local", SP>>, CondC1)
AddCavs == {FirstC1, ThirdA, ThirdB, LocalC, LocalCond, LocalBadKey, LocalNoKey}
AddMintSeqs == {<<>>, <<FirstC1>>, <<FirstC1, ThirdB>>, <<ThirdA, LocalCond>>, <<LocalBadKey>>}
PoolThirdPartyIds == UNION {ThirdPartyIds(p) : p \in pool}

AddMint == CallNewMacaroon(GivenIds, RootKeys, AddMintSeqs, AddMaxPool)
AddAddCaveat == CallAddCaveat(AddCavs, CavKeys, AddMaxCavs)
\* the client C and the service A discharge the caveats of the macaroons
AddDischarge ==
  CallFreeDischarge({KeyPair("pkC"), KeyPair("pkA")}, PoolThirdPartyIds,
                    {TPChecker({CondTrue, CondAccess}, <<>>)}, 0)

NextAdd ==
  \/ AddMint
  \/ AddAddCaveat
  \/ AddDischarge
  \/ Return

SpecAdd == Init /\ [][NextAdd]_vars

\* ------------------------------------------------------------------------
\* Discharging caveat ids, need-declared conditions
\* ------------------------------------------------------------------------
DisMaxNames == 2    \* names in the list of a need-declared condition

NameA == <<"a">>
NameB == <<"b">>
ValueV == <<"v">>
\* the names joined by commas; the empty name gives no token
RECURSIVE JoinNames(_)
JoinNames(names) ==
  IF Len(names) = 0 THEN EmptyStr
  ELSE IF Len(names) = 1 THEN names[1]
  ELSE names[1] \o <<",">> \o JoinNames(Tail(names))
NameLists == SeqsUpTo({NameA, NameB, EmptyStr}, DisMaxNames) \ {<<>>}
\* need-declared <names> <inner>
NeedDeclaredCond(names, inner) ==
  CondNeedDeclared \o <<SP>> \o JoinNames(names) \o <<SP>> \o inner
\* need-declared <names>, without an inner condition
NeedDeclaredBare(names) == CondNeedDeclared \o <<SP>> \o JoinNames(names)
DisInners == {CondAccess, CondC1, EmptyStr}
DisConds ==
  {CondAccess, CondC1, CondNeedDeclared}
  \cup {NeedDeclaredCond(names, inner) : names \in NameLists, inner \in DisInners}
  \cup {NeedDeclaredBare(names) : names \in NameLists}
\* caveat ids made for A, one made for S and one that is no caveat id
DisIds ==
  {encodeCaveatId(cond, "ck1", "pkA") : cond \in DisConds}
  \cup {encodeCaveatId(CondAccess, "ck2", "pkA"),
        encodeCaveatId(CondAccess, "ck1", "pkS"), <<"zz">>}
\* the caveats a third-party checker returns with its approval
DisExtras ==
  {<<>>, <<DeclaredCaveat(NameA, ValueV)>>, <<FirstC1, DeclaredCaveat(NameB, EmptyStr)>>,
   <<ThirdA>>, <<FirstC1, ThirdB>>, <<Caveat(LocA, DeclaredCaveat(NameA, ValueV).Condition)>>,
   <<Caveat(EmptyStr, CondDeclared \o <<SP>> \o NameA)>>}
DisCheckers == {TPChecker({CondAccess}, extras) : extras \in DisExtras}

DisFree ==
  CallFreeDischarge({KeyPair("pkA"), KeyPair("pkC")}, DisIds, DisCheckers, 0)
DisService == CallDischargeBy({svcA, svcARing}, DisIds, DisCheckers, CavKeys, 0)

NextDis ==
  \/ DisFree
  \/ DisService
  \/ Return

SpecDis == Init /\ [][NextDis]_vars

\* ------------------------------------------------------------------------
\* Minting again under an id, without deletions
\* ------------------------------------------------------------------------
ReMaxPool == 2      \* macaroons held by clients at one time

ReMint ==
  CallNewMacaroon(GivenIds \cup {EmptyStr}, RootKeys \cup {NilKey}, {<<>>, <<FirstC1>>},
                  ReMaxPool)
ReCheck == CallCheck(1, {AcceptAll, FPChecker("accept", {})})

NextRe ==
  \/ ReMint
  \/ ReCheck
  \/ Return

SpecRe == Init /\ [][NextRe]_vars

\* ------------------------------------------------------------------------
\* One service that mints, checks and discharges: the writes of the store
\* ------------------------------------------------------------------------
StMaxPool == 2      \* macaroons held by clients at one time

\* the id of a caveat another service addressed to S
IdForS == encodeCaveatId(CondAccess, "ck1", "pkS")
StTPCheckers == {TPChecker({CondAccess}, <<>>), TPChecker({CondAccess}, <<FirstC1>>)}

\* a client may ask for a macaroon under the id of the caveat
StMint ==
  CallNewMacaroon(GivenIds \cup {IdForS}, RootKeys \cup {"ck1"}, {<<>>, <<FirstC1>>},
                  StMaxPool)
StAddCaveat == CallAddCaveat({FirstC1, ThirdB}, CavKeys, 1)
StCheck == CallCheck(1, {AcceptAll})
StCheckWithKey == CallCheckWithKey(1, {AcceptAll}, RootKeys)
StCheckAny == CallCheckAny(1, {EmptyMap}, {AcceptAll})
StFreeDischarge == CallFreeDischarge({service.key}, {IdForS}, StTPCheckers, StMaxPool)
StServiceDischarge == CallDischargeBy({service}, {IdForS}, StTPCheckers, CavKeys, StMaxPool)

NextSt ==
  \/ StMint
  \/ StAddCaveat
  \/ StCheck
  \/ StCheckWithKey
  \/ StCheckAny
  \/ StFreeDischarge
  \/ StServiceDischarge
  \/ Return

SpecSt == Init /\ [][NextSt]_vars

\* ------------------------------------------------------------------------
\* Concurrent callers of one service.  A call is cut at its accesses to the
\* store: what a handler does before and after them touches its own
\* variables only.
\* ------------------------------------------------------------------------
ConcThreads == 2    \* callers at work on the service at one time
ConcMaxPool == 2    \* macaroons held by clients at one time

Threads == 1..ConcThreads
ConcCheckers == {AcceptAll}
InFlight == {t \in Threads : last[t] # Idle /\ last[t].op = "NewMacaroon"}

InitConc ==
  /\ service = NewService(ParamsS)
  /\ store = [k \in {} |-> storageItem(NilKey)]
  /\ pool = {}
  /\ minted = {}
  /\ last = [t \in Threads |-> Idle]

\* NewMacaroon up to the call of store.Put
ConcMintBegin ==
  \E t \in Threads, rootKey \in RootKeys \cup {NilKey} :
  \E newRootKey \in randomBytes(RandKeys), idBytes \in randomBytes(RandIds) :
  \E r \in {NewMacaroon(service, <<"m1">>, rootKey, <<>>, newRootKey, idBytes, <<>>)} :
    /\ last[t] = Idle
    /\ r.put
    /\ Cardinality(pool) + Cardinality(InFlight) < ConcMaxPool
    /\ last' = [last EXCEPT ![t] = [op |-> "NewMacaroon", pc |-> "put", m |-> r.m,
                                    rootKey |-> r.rootKey]]
    /\ UNCHANGED <<service, store, pool, minted>>
\* store.Put of NewMacaroon and its return
ConcMintPut ==
  \E t \in Threads :
    /\ last[t] # Idle /\ last[t].op = "NewMacaroon"
    /\ store' = StorePut(store, last[t].m.id, storageItem(last[t].rootKey))
    /\ pool' = pool \cup {last[t].m}
    /\ minted' = {x \in minted : x.id # last[t].m.id} \cup {last[t].m}
    /\ last' = [last EXCEPT ![t] = Idle]
    /\ UNCHANGED service
\* Check and CheckAny up to the return of store.Get: snap is what the store
\* held then
ConcCheckGet ==
  \E t \in Threads, m \in pool, op \in {"Check", "CheckAny"} :
    /\ last[t] = Idle
    /\ last' = [last EXCEPT ![t] = [op |-> op, pc |-> "verify", ms |-> <<m>>,
                                    snap |-> store]]
    /\ UNCHANGED <<service, store, pool, minted>>
\* the rest of Check or CheckAny
ConcCheckVerify ==
  \E t \in Threads, checker \in ConcCheckers :
    /\ last[t] # Idle /\ last[t].op \in {"Check", "CheckAny"} /\ last[t].pc = "verify"
    /\ last' = [last EXCEPT ![t] =
         [op |-> last[t].op, pc |-> "done", ms |-> last[t].ms, snap |-> last[t].snap,
          checker |-> checker,
          err |-> IF last[t].op = "Check"
                  THEN Check(service, last[t].snap, last[t].ms, checker).err
                  ELSE CheckAny(service, last[t].snap, <<last[t].ms>>, EmptyMap, checker).err]]
    /\ UNCHANGED <<service, store, pool, minted>>
\* CheckWithKey, AddCaveat and Service.Discharge make no call of the store
ConcCheckWithKey ==
  \E t \in Threads, m \in pool, checker \in ConcCheckers :
    /\ last[t] = Idle
    /\ last' = [last EXCEPT ![t] =
         [op |-> "CheckWithKey", pc |-> "done",
          err |-> CheckWithKey(<<m>>, "k1", checker).err]]
    /\ UNCHANGED <<service, store, pool, minted>>
ConcAddCaveat ==
  \E t \in Threads, m \in pool :
  \E r \in {AddCaveat(service, m, FirstC1, NilKey)} :
    /\ last[t] = Idle
    /\ Len(m.caveats) < 1
    /\ Cardinality(pool) + Cardinality(InFlight) < ConcMaxPool \/ r.m \in pool
    /\ pool' = (pool \ {m}) \cup {r.m}
    /\ minted' = IF m \in minted THEN (minted \ {m}) \cup {r.m} ELSE minted
    /\ last' = [last EXCEPT ![t] = [op |-> "AddCaveat", pc |-> "done", err |-> r.err]]
    /\ UNCHANGED <<service, store>>
ConcDischarge ==
  \E t \in Threads, checker \in StTPCheckers :
  \E r \in {ServiceDischarge(service, checker, IdForS, <<>>)} :
    /\ last[t] = Idle
    /\ last' = [last EXCEPT ![t] = [op |-> "ServiceDischarge", pc |-> "done",
                                    err |-> r.err]]
    /\ UNCHANGED <<service, store, pool, minted>>
\* the caller takes the result of its call
ConcReturn ==
  \E t \in Threads :
    /\ last[t] # Idle /\ last[t].op # "NewMacaroon" /\ last[t].pc = "done"
    /\ last' = [last EXCEPT ![t] = Idle]
    /\ UNCHANGED <<service, store, pool, minted>>

NextConc ==
  \/ ConcMintBegin
  \/ ConcMintPut
  \/ ConcCheckGet
  \/ ConcCheckVerify
  \/ ConcCheckWithKey
  \/ ConcAddCaveat
  \/ ConcDischarge
  \/ ConcReturn

SpecConc == InitConc /\ [][NextConc]_vars

\* ------------------------------------------------------------------------
\* Properties
\* ------------------------------------------------------------------------
FirstPartyConds(m) ==
  {m.caveats[i].cid : i \in {j \in 1..Len(m.caveats) : ~isThirdParty(m.caveats[j])}}
AllFirstParty(m) == ThirdPartyIds(m) = {}
AcceptsAll(checker, m) ==
  \A c \in FirstPartyConds(m) : CheckFirstPartyCaveat(checker, c) = NoErr
IsVerificationError(err) == err.typ = "VerificationError"

\* C1: a macaroon returned by a successful NewMacaroon with first-party
\* caveats only, whose store entry was neither deleted nor overwritten
\* since, passes Check([m], c) for every checker c accepting each of its
\* conditions, whether id and root key were supplied or drawn at random.
C1_MintThenCheck ==
  (/\ last.op = "Check"
   /\ Len(last.ms) = 1
   /\ last.ms[1] \in minted
   /\ AllFirstParty(last.ms[1])
   /\ AcceptsAll(last.checker, last.ms[1]))
  => last.err = NoErr
\* a minted macaroon with a random id, a random root key and a caveat passed
C1_Witness ==
  /\ last.op = "Check"
  /\ Len(last.ms) = 1
  /\ last.ms[1] \in minted
  /\ last.ms[1].id \in RandIds
  /\ store[last.ms[1].id].RootKey \in RandKeys
  /\ Len(last.ms[1].caveats) > 0
  /\ AllFirstParty(last.ms[1])
  /\ last.calls # <<>>
  /\ last.err = NoErr


ThirdPartyCount(m) == Cardinality({j \in 1..Len(m.caveats) : isThirdParty(m.caveats[j])})
\* the discharge the authorization service returns for caveat id cid under
\* checker tpc, bound to the signature of m
BoundDischarge(m, cid, tpc) == Bind(ServiceDischarge(svcA, tpc, cid, <<>>).m, m.sig)

\* C2: when the service minted m with one third-party caveat for A, A
\* discharged its id with a checker that accepts the condition and returns no
\* caveats, and the discharge was bound to m's signature, Check([m, d])
\* returns nil for every checker accepting m's first-party caveats.
C2_ThirdPartyHappyPath ==
  (/\ last.op = "Check"
   /\ Len(last.ms) = 2
   /\ last.ms[1] \in minted
   /\ ThirdPartyCount(last.ms[1]) = 1
   /\ \E cid \in ThirdPartyIds(last.ms[1]), tpc \in TPCheckers :
        /\ ServiceDischarge(svcA, tpc, cid, <<>>).err = NoErr
        /\ ServiceDischarge(svcA, tpc, cid, <<>>).m.caveats = <<>>
        /\ last.ms[2] = BoundDischarge(last.ms[1], cid, tpc)
   /\ AcceptsAll(last.checker, last.ms[1]))
  => last.err = NoErr
\* a minted macaroon with a first-party and a third-party caveat passed with
\* its bound discharge
C2_Witness ==
  /\ last.op = "Check"
  /\ Len(last.ms) = 2
  /\ last.ms[1] \in minted
  /\ ThirdPartyCount(last.ms[1]) = 1
  /\ FirstPartyConds(last.ms[1]) # {}
  /\ last.ms[2].id \in ThirdPartyIds(last.ms[1])
  /\ BindDepth(last.ms[2]) = 1
  /\ last.ms[2].sig[1].k = last.ms[1].sig
  /\ last.calls # <<>>
  /\ last.err = NoErr

Unbound(d) == BindDepth(d) = 0
\* the signature d was bound to last
BoundTo(d) == d.sig[1].k
\* C3: a discharge for a third-party caveat of the primary that is unbound
\* or bound to another signature than the primary's never makes Check
\* succeed: the result is a VerificationError, whatever the checker.
C3_BindingNonTransferable ==
  (/\ last.op = "Check"
   /\ Len(last.ms) = 2
   /\ last.ms[2].id \in ThirdPartyIds(last.ms[1])
   /\ (Unbound(last.ms[2]) \/ BoundTo(last.ms[2]) # last.ms[1].sig))
  => IsVerificationError(last.err)
\* a primary in the store, presented with its discharge bound to another
\* primary, was refused for the signature
C3_Witness ==
  /\ last.op = "Check"
  /\ Len(last.ms) = 2
  /\ last.ms[1] \in minted
  /\ last.ms[2].id \in ThirdPartyIds(last.ms[1])
  /\ ~Unbound(last.ms[2])
  /\ BoundTo(last.ms[2]) # last.ms[1].sig
  /\ last.checker = AcceptAll
  /\ last.err = VerificationError("signature mismatch after caveat verification")

\* C4: when the primary has a third-party caveat whose id is the id of none
\* of the discharges presented, Check returns a VerificationError, whatever
\* the checker and the other discharges.
C4_MissingDischarge ==
  (/\ last.op = "Check"
   /\ Len(last.ms) >= 1
   /\ \E cid \in ThirdPartyIds(last.ms[1]) :
        \A i \in 2..Len(last.ms) : last.ms[i].id # cid)
  => IsVerificationError(last.err)
\* a stored primary presented with the discharge of another caveat
C4_Witness ==
  /\ last.op = "Check"
  /\ Len(last.ms) = 2
  /\ last.ms[1] \in minted
  /\ last.ms[2].location = EmptyStr
  /\ last.ms[2].id \notin ThirdPartyIds(last.ms[1])
  /\ last.checker = AcceptAll
  /\ last.err = VerificationError("cannot find discharge macaroon for caveat")

\* C6: when the store has no entry for the id of ms[0], Check returns the
\* VerificationError "macaroon not found in storage" without verifying the
\* macaroon and without calling the first-party checker.
C6_StorageMiss ==
  (/\ last.op = "Check"
   /\ Len(last.ms) >= 1
   /\ last.ms[1].id \notin DOMAIN store)
  => /\ last.err = VerificationError("macaroon not found in storage")
     /\ ~last.verified
     /\ last.calls = <<>>
\* a discharge, whose id the service never minted, presented as the primary
\* while the store holds other entries
C6_Witness ==
  /\ last.op = "Check"
  /\ Len(last.ms) >= 1
  /\ last.ms[1].location = EmptyStr
  /\ last.ms[1].id \notin DOMAIN store
  /\ DOMAIN store # {}
  /\ last.err = VerificationError("macaroon not found in storage")

\* what CheckWithKey hands down: ms[0].Verify(rootKey, checker, ms[1:])
Underlying(ms, rootKey, checker) ==
  IF Len(ms) = 0 THEN "no macaroons in slice"
  ELSE Verify(ms[1], rootKey, checker, Tail(ms)).err
\* C7: CheckWithKey returns nil exactly when ms[0] verifies against the root
\* key with ms[1:] as discharges, any other outcome is a VerificationError
\* carrying the reason, and no call of CheckWithKey changes the store.
C7_CheckWithKeyState ==
  last.op = "CheckWithKey" =>
    LET u == Underlying(last.ms, last.rootKey, last.checker) IN
    /\ (last.err = NoErr) = (u = "")
    /\ last.err # NoErr => last.err = VerificationError(u)
C7_CheckWithKey ==
  /\ []C7_CheckWithKeyState
  /\ [][last'.op = "CheckWithKey" => store' = store]_vars
\* a first-party checker rejection came back as a VerificationError
C7_Witness ==
  /\ last.op = "CheckWithKey"
  /\ Len(last.ms) = 2
  /\ last.calls # <<>>
  /\ last.err = VerificationError("caveat not satisfied")


\* the macaroon made from rootKey with the id, the location and the caveats
\* of m by macaroon.New and the caveat-append operations
RECURSIVE Appended(_, _, _)
Appended(acc, caveats, i) ==
  IF i > Len(caveats) THEN acc
  ELSE Appended(IF isThirdParty(caveats[i])
                THEN AddThirdPartyCaveat(acc, caveats[i].vid.rk, caveats[i].cid,
                                         caveats[i].location)
                ELSE AddFirstPartyCaveat(acc, caveats[i].cid),
                caveats, i + 1)
Produced(m, rootKey) == m = Appended(MacaroonNew(rootKey, m.id, m.location), m.caveats, 1)


CandCheck(i) ==
  Check(service, store, last.mss[i],
        New(Overlay(InferDeclared(last.mss[i]), last.assert), last.checker))
Passing == {i \in 1..Len(last.mss) : CandCheck(i).err = NoErr}

\* C8: when some candidate passes Check, CheckAny and CheckAnyM return nil
\* with the declared map and the slice of the passing candidate of lowest
\* index, and no candidate after it is checked.
C8_FirstSuccess ==
  (last.op = "CheckAny" /\ Passing # {})
  => LET k == Min(Passing) IN
     /\ last.err = NoErr
     /\ last.attrs = [isNil |-> FALSE,
                      map |-> Overlay(InferDeclared(last.mss[k]), last.assert)]
     /\ last.ms = [isNil |-> FALSE, ms |-> last.mss[k]]
     /\ Len(last.tries) = k
\* two different candidates pass: the first one is returned, the second one
\* is not checked
C8_Witness ==
  /\ last.op = "CheckAny"
  /\ Len(last.mss) = 2
  /\ Passing = {1, 2}
  /\ last.mss[1] # last.mss[2]
  /\ InferDeclared(last.mss[1]) # InferDeclared(last.mss[2])
  /\ last.ms.ms = last.mss[1]
  /\ Len(last.tries) = 1
  /\ last.err = NoErr

\* C9: when no candidate passes, CheckAny returns a nil map and an error
\* whose cause is a VerificationError; when mss is not empty it is the error
\* of the last candidate.
C9_NoSuccess ==
  (last.op = "CheckAny" /\ Passing = {})
  => /\ last.attrs = NilMap
     /\ last.ms = NilSlice
     /\ isVerificationError(last.err.cause)
     /\ Len(last.mss) = 0 => last.err = VerificationError("no macaroons")
     /\ Len(last.mss) > 0 =>
          /\ last.err.reason = CandCheck(Len(last.mss)).err.reason
          /\ Len(last.tries) = Len(last.mss)
\* two candidates failed for different reasons and the reason of the last
\* one came back
C9_Witness ==
  /\ last.op = "CheckAny"
  /\ Len(last.mss) = 2
  /\ Passing = {}
  /\ CandCheck(1).err.reason # CandCheck(2).err.reason
  /\ last.err.reason = CandCheck(2).err.reason
  /\ last.attrs = NilMap

\* the name and value of the declared caveats of the macaroons of ms
DeclPairs(ms) ==
  {<<SplitN2(ParseCaveat(c).arg, SP)[1], SplitN2(ParseCaveat(c).arg, SP)[2]>> :
     c \in {d \in UNION {FirstPartyConds(ms[i]) : i \in 1..Len(ms)} :
              /\ ParseCaveat(d).cond = CondDeclared
              /\ Len(SplitN2(ParseCaveat(d).arg, SP)) = 2}}
\* the map the claim describes
Expected(ms, assert) ==
  [a \in DOMAIN assert \cup {pr[1] : pr \in DeclPairs(ms)} |->
     IF a \in DOMAIN assert THEN assert[a]
     ELSE LET vals == {pr[2] : pr \in {q \in DeclPairs(ms) : q[1] = a}} IN
          IF Cardinality(vals) = 1 THEN CHOOSE v \in vals : TRUE ELSE EmptyStr]
CarriesBoth(ms) ==
  Len(ms) = 1 /\ ms[1] \in minted
  /\ [j \in 1..Len(ms[1].caveats) |-> ms[1].caveats[j].cid] = <<CondDeclAlice, CondDeclBob>>
\* C10: the declared map handed to the checker for a candidate, and returned
\* when it passes, holds assert's value for every key of assert and, for any
\* other name, the value its declared caveats agree on or the empty string
\* when they disagree.  So for a slice carrying declared username alice and
\* declared username bob the check of declared username alice fails with an
\* empty assert and passes with assert = {username: alice}.
C10_DeclaredInference ==
  last.op = "CheckAny" =>
    /\ \A i \in 1..Len(last.tries) :
         /\ last.tries[i].declared = Expected(last.mss[i], last.assert)
         /\ (CarriesBoth(last.mss[i]) /\ last.assert = EmptyMap) =>
              /\ last.tries[i].calls = <<CondDeclAlice>>
              /\ IsVerificationError(last.tries[i].err)
         /\ (CarriesBoth(last.mss[i]) /\ last.assert = AssertAlice) =>
              /\ Len(last.tries[i].calls) > 1
              /\ last.tries[i].calls[1] = CondDeclAlice
    /\ last.err = NoErr =>
         last.attrs = [isNil |-> FALSE, map |-> Expected(last.ms.ms, last.assert)]
\* the slice with both declarations was checked with assert = {username:
\* alice}: the check of declared username alice passed
C10_Witness ==
  /\ last.op = "CheckAny"
  /\ Len(last.mss) = 1
  /\ CarriesBoth(last.mss[1])
  /\ last.assert = AssertAlice
  /\ InferDeclared(last.mss[1]) = [n \in {Username} |-> EmptyStr]
  /\ last.tries[1].declared = AssertAlice
  /\ last.tries[1].calls[1] = CondDeclAlice
  /\ Len(last.tries[1].calls) = 2

\* the caveat AddCaveat appended last, when it appended exactly one
AppendedOne(before, after) ==
  /\ after.id = before.id /\ after.location = before.location
  /\ Len(after.caveats) = Len(before.caveats) + 1
  /\ SubSeq(after.caveats, 1, Len(before.caveats)) = before.caveats
LastCaveat(m) == m.caveats[Len(m.caveats)]

\* C11: AddCaveat appends a caveat with an empty Location as a first-party
\* caveat with its Condition, without asking the locator and without error;
\* a caveat with another Location that does not start with "local " is
\* appended as a third-party caveat at that location, under the root key
\* drawn for it, when the locator has a public key for the location; when
\* the locator has none, AddCaveat returns an error and the macaroon is as
\* it was.
C11_AddCaveatRouting ==
  last.op = "AddCaveat" =>
    /\ last.cav.Location = EmptyStr =>
         /\ last.err = NoErr
         /\ last.lookups = <<>>
         /\ AppendedOne(last.m, last.res)
         /\ LastCaveat(last.res) =
              [cid |-> last.cav.Condition, vid |-> NoVid, location |-> EmptyStr]
    /\ (last.cav.Location # EmptyStr /\ ~HasPrefixLocal(last.cav.Location)) =>
         /\ last.lookups = <<last.cav.Location>>
         /\ IF last.cav.Location \in DOMAIN service.locator
            THEN /\ last.err = NoErr
                 /\ AppendedOne(last.m, last.res)
                 /\ LastCaveat(last.res).location = last.cav.Location
                 /\ LastCaveat(last.res).vid = encrypt(last.m.sig, last.rootKey)
                 /\ decodeCaveatId(KeyPair(service.locator[last.cav.Location]),
                                   LastCaveat(last.res).cid)
                      = [rootKey |-> last.rootKey, condition |-> last.cav.Condition,
                         err |-> NoErr]
            ELSE /\ last.err # NoErr
                 /\ last.res = last.m
\* a third-party caveat for A was appended to a macaroon that had a caveat,
\* under the second root key the draw can give
C11_Witness ==
  /\ last.op = "AddCaveat"
  /\ last.cav = ThirdA
  /\ last.rootKey = "ck2"
  /\ Len(last.m.caveats) = 1
  /\ Len(last.res.caveats) = 2
  /\ last.res.caveats[2].location = LocA
  /\ last.lookups = <<LocA>>
  /\ last.err = NoErr

\* the text after "local " is a public key
ValidKeyText(loc) == Len(loc) = 3 /\ loc[3] \in PublicKeys
\* C12: for a caveat whose Location starts with "local ", AddCaveat does not
\* ask the locator; when the Condition is not empty or the rest of the
\* location is no public key, it returns an error and the macaroon is as it
\* was; otherwise it appends one third-party caveat at location "local"
\* whose id holds the condition "true" for the key of the location, and
\* Discharge with the key pair of that key checks the condition "true".
C12_LocalCaveat ==
  /\ (last.op = "AddCaveat" /\ HasPrefixLocal(last.cav.Location)) =>
       /\ last.lookups = <<>>
       /\ IF last.cav.Condition # EmptyStr \/ ~ValidKeyText(last.cav.Location)
          THEN /\ last.err # NoErr
               /\ last.res = last.m
          ELSE /\ last.err = NoErr
               /\ AppendedOne(last.m, last.res)
               /\ isThirdParty(LastCaveat(last.res))
               /\ LastCaveat(last.res).location = <<"local">>
               /\ decodeCaveatId(KeyPair(last.cav.Location[3]), LastCaveat(last.res).cid)
                    = [rootKey |-> last.rootKey, condition |-> CondTrue, err |-> NoErr]
  /\ (/\ last.op = "FreeDischarge"
      /\ last.key = KeyPair("pkC")
      /\ \E p \in pool : \E i \in 1..Len(p.caveats) :
           p.caveats[i].location = <<"local">> /\ p.caveats[i].cid = last.id) =>
       /\ last.checked = <<CondTrue>>
       /\ last.err = NoErr
       /\ last.m.id = last.id
\* the client C discharged the local caveat of a macaroon and its checker
\* was asked for "true"
C12_Witness ==
  /\ last.op = "FreeDischarge"
  /\ last.key = KeyPair("pkC")
  /\ \E p \in pool : \E i \in 1..Len(p.caveats) :
       p.caveats[i].location = <<"local">> /\ p.caveats[i].cid = last.id
  /\ last.checked = <<CondTrue>>
  /\ last.err = NoErr

\* C19: when NewMacaroon fails because a caveat cannot be added, the store
\* is as it was before the call and no macaroon is returned; a successful
\* call writes one entry of the store, the one of the macaroon that has
\* every caveat.
C19_MintFailure ==
  [][last'.op = "NewMacaroon" =>
       IF last'.err # NoErr
       THEN /\ store' = store
            /\ last'.m = NoMacaroon
            /\ pool' = pool
       ELSE /\ DOMAIN store' = DOMAIN store \cup {last'.m.id}
            /\ \A k \in DOMAIN store \ {last'.m.id} : store'[k] = store[k]
            /\ Len(last'.m.caveats) = Len(last'.caveats)]_vars
\* a mint failed at its second caveat, after the first one was added, while
\* the store held the entry of an earlier mint
C19_Witness ==
  /\ last.op = "NewMacaroon"
  /\ last.caveats = <<FirstC1, ThirdB>>
  /\ last.err # NoErr
  /\ last.m = NoMacaroon
  /\ DOMAIN store # {}
  /\ \A p \in pool : p.id \in DOMAIN store

\* the names the caveats declare with a first-party declared caveat
DeclaredBy(caveats) ==
  {n \in {NameA, NameB} : \E i \in 1..Len(caveats), v \in {ValueV, EmptyStr} :
                            caveats[i] = DeclaredCaveat(n, v)}
\* declared <name> "" for the names, in their order, that are not declared
RECURSIVE MissingDeclarations(_, _)
MissingDeclarations(names, declared) ==
  IF names = <<>> THEN <<>>
  ELSE (IF names[1] \in declared THEN <<>> ELSE <<DeclaredCaveat(names[1], EmptyStr)>>)
       \o MissingDeclarations(Tail(names), declared)

\* C13: when Discharge succeeds for a condition need-declared n1,...,nk
\* <inner>, the third-party checker was called with <inner> only, and the
\* caveats returned are the checker's caveats, unchanged and in order,
\* followed by declared ni "" for each name the checker did not declare; so
\* every name has a first-party declared caveat among them.
C13_NeedDeclared ==
  \A names \in NameLists, inner \in DisInners :
    (/\ last.op = "FreeDischarge"
     /\ last.err = NoErr
     /\ last.id = encodeCaveatId(NeedDeclaredCond(names, inner), "ck1", last.key.Public))
    => /\ last.checked = <<inner>>
       /\ last.caveats = last.checker.caveats
            \o MissingDeclarations(names, DeclaredBy(last.checker.caveats))
       /\ \A j \in 1..Len(names) : \E i \in 1..Len(last.caveats), v \in {ValueV, EmptyStr} :
            last.caveats[i] = DeclaredCaveat(names[j], v)
\* the checker declared a, and b was declared empty after it
C13_Witness ==
  /\ last.op = "FreeDischarge"
  /\ last.err = NoErr
  /\ last.id = encodeCaveatId(NeedDeclaredCond(<<NameA, NameB>>, CondAccess), "ck1", "pkA")
  /\ last.checker.caveats = <<DeclaredCaveat(NameA, ValueV)>>
  /\ last.caveats = <<DeclaredCaveat(NameA, ValueV), DeclaredCaveat(NameB, EmptyStr)>>
  /\ last.checked = <<CondAccess>>

\* a caveat id that the key pair decodes
Decodes(key, id) ==
  \E cond \in DisConds, ck \in CavKeys : id = encodeCaveatId(cond, ck, key.Public)
\* C14: Discharge decodes the caveat id with the key pair, then checks the
\* condition, then makes the macaroon: when decoding fails the checker is
\* not called; when decoding or the checker fails no macaroon is returned,
\* and the cause of the checker's error is kept; on success the macaroon
\* has the decoded root key, the caveat id as its id, an empty location and
\* no caveats, and the checker's caveats are returned beside it.
C14_DischargeOrder ==
  last.op = "FreeDischarge" =>
    /\ ~Decodes(last.key, last.id) =>
         /\ last.checked = <<>>
         /\ last.err # NoErr
    /\ last.err # NoErr =>
         /\ last.m = NoMacaroon
         /\ last.caveats = <<>>
    /\ (last.checked # <<>> /\ last.checked[1] \notin last.checker.accept) =>
         /\ last.err.cause = ErrCaveatNotRecognized.cause
         /\ last.m = NoMacaroon
    /\ last.err = NoErr =>
         /\ Len(last.checked) = 1
         /\ last.checked[1] \in last.checker.accept
         /\ \E cond \in DisConds, ck \in CavKeys :
              /\ last.id = encodeCaveatId(cond, ck, last.key.Public)
              /\ last.m = [location |-> EmptyStr, id |-> last.id, caveats |-> <<>>,
                           sig |-> keyedHash(makeKey(ck), last.id)]
\* the checker did not recognise the decoded condition: its cause came
\* back and no macaroon
C14_Witness ==
  /\ last.op = "FreeDischarge"
  /\ last.id = encodeCaveatId(CondC1, "ck1", "pkA")
  /\ last.key = KeyPair("pkA")
  /\ last.checked = <<CondC1>>
  /\ last.err.cause = ErrCaveatNotRecognized.cause
  /\ last.m = NoMacaroon

\* AddCaveat of the service refuses the caveat
AddFails(svc, cav) ==
  /\ cav.Location # EmptyStr
  /\ IF HasPrefixLocal(cav.Location)
     THEN cav.Condition # EmptyStr \/ ~ValidKeyText(cav.Location)
     ELSE cav.Location \notin DOMAIN svc.locator
\* mc is what AddCaveat of the service makes of cav under rootKey
Routed(svc, cav, mc, rootKey) ==
  IF cav.Location = EmptyStr
  THEN mc = [cid |-> cav.Condition, vid |-> NoVid, location |-> EmptyStr]
  ELSE /\ mc.location = cav.Location
       /\ isThirdParty(mc)
       /\ decodeCaveatId(KeyPair(svc.locator[cav.Location]), mc.cid)
            = [rootKey |-> rootKey, condition |-> cav.Condition, err |-> NoErr]
\* C15: Service.Discharge returns a macaroon only when Discharge succeeded
\* and AddCaveat succeeded for each of the caveats it returned; the
\* macaroon then has exactly those caveats, in their order, each as the
\* service's AddCaveat adds it; when an AddCaveat fails, an error and no
\* macaroon come back.
C15_ServiceDischarge ==
  last.op = "ServiceDischarge" =>
    LET d == Discharge(last.svc.encoder.key, last.checker, last.id) IN
    IF d.err # NoErr \/ \E i \in 1..Len(d.caveats) : AddFails(last.svc, d.caveats[i])
    THEN /\ last.err # NoErr
         /\ last.m = NoMacaroon
    ELSE /\ last.err = NoErr
         /\ last.m.id = last.id
         /\ last.m.location = EmptyStr
         /\ Len(last.m.caveats) = Len(d.caveats)
         /\ \A i \in 1..Len(d.caveats) :
              Routed(last.svc, d.caveats[i], last.m.caveats[i],
                     IF i \in DOMAIN last.rnd THEN last.rnd[i] ELSE NilKey)
\* the service with a key ring added a third-party caveat of the checker and
\* the empty declaration that need-declared asks for
C15_Witness ==
  /\ last.op = "ServiceDischarge"
  /\ last.svc = svcARing
  /\ last.id = encodeCaveatId(NeedDeclaredCond(<<NameA>>, CondAccess), "ck1", "pkA")
  /\ last.checker.caveats = <<ThirdA>>
  /\ last.err = NoErr
  /\ Len(last.m.caveats) = 2
  /\ last.m.caveats[1].location = LocA
  /\ last.m.caveats[2].cid = DeclaredCaveat(NameA, EmptyStr).Condition

\* need-declared conditions without an inner condition or with an empty name
Malformed ==
  {CondNeedDeclared}
  \cup {NeedDeclaredBare(names) : names \in NameLists}
  \cup {NeedDeclaredCond(names, inner) :
          names \in {q \in NameLists : \E j \in 1..Len(q) : q[j] = EmptyStr},
          inner \in DisInners}
\* C18: for a need-declared condition that has no inner condition after a
\* space, or whose list of names holds an empty name, Discharge returns an
\* error, does not call the third-party checker and makes no macaroon.
C18_NeedDeclaredValidation ==
  (/\ last.op \in {"FreeDischarge", "ServiceDischarge"}
   /\ \E cond \in Malformed, pk \in PublicKeys : last.id = encodeCaveatId(cond, "ck1", pk))
  => /\ last.err # NoErr
     /\ last.checked = <<>>
     /\ last.m = NoMacaroon
\* the condition need-declared ,a access-allowed, decoded by A, was refused
\* for its empty name though the checker accepts the inner condition
C18_Witness ==
  /\ last.op = "FreeDischarge"
  /\ last.key = KeyPair("pkA")
  /\ last.id = encodeCaveatId(NeedDeclaredCond(<<EmptyStr, NameA>>, CondAccess), "ck1", "pkA")
  /\ CondAccess \in last.checker.accept
  /\ last.err.reason = "need-declared caveat with empty required attribute"
  /\ last.checked = <<>>

\* C20: without deletions the store maps each minted id to the root key of
\* the latest successful mint under that id: the latest macaroon of an id
\* is made from the stored root key and passes Check, and a macaroon of an
\* earlier mint under the id with another root key fails Check with a
\* VerificationError.
C20_LatestMint ==
  /\ DOMAIN store = {m.id : m \in minted}
  /\ \A m \in minted : Produced(m, store[m.id].RootKey)
  /\ (last.op = "Check" /\ Len(last.ms) = 1) =>
       /\ (last.ms[1] \in minted /\ AcceptsAll(last.checker, last.ms[1]))
            => last.err = NoErr
       /\ (/\ last.ms[1] \notin minted
           /\ last.ms[1].id \in DOMAIN store
           /\ ~Produced(last.ms[1], store[last.ms[1].id].RootKey))
            => IsVerificationError(last.err)
\* a macaroon of an earlier mint was checked after its id was minted again
\* with another root key, and was refused
C20_Witness ==
  /\ last.op = "Check"
  /\ Len(last.ms) = 1
  /\ last.ms[1] \in pool \ minted
  /\ \E n \in minted : /\ n.id = last.ms[1].id
                       /\ n.caveats = last.ms[1].caveats
                       /\ n.sig # last.ms[1].sig
  /\ last.checker = AcceptAll
  /\ IsVerificationError(last.err)

\* the calls that are not NewMacaroon
NotMinting ==
  {"Check", "CheckWithKey", "CheckAny", "AddCaveat", "FreeDischarge", "ServiceDischarge"}
\* a discharge macaroon presented as the primary, under whose id no
\* macaroon was minted, is refused
C17_DischargeAsPrimary ==
  (/\ last.op = "Check"
   /\ Len(last.ms) = 1
   /\ last.ms[1].location = EmptyStr
   /\ ~\E m \in minted : m.id = last.ms[1].id)
  => IsVerificationError(last.err)
\* C17: Check, CheckWithKey, CheckAny, AddCaveat, Discharge and
\* Service.Discharge leave the contents of the store as they were, whatever
\* they return; so the store has no entry for a discharge macaroon, and
\* Check of it as the primary returns a VerificationError unless a macaroon
\* was minted under its id.
C17_StoreWrittenAtMint ==
  /\ [][last'.op \in NotMinting => store' = store]_vars
  /\ []C17_DischargeAsPrimary
\* the service discharged a caveat and was then asked to check the
\* discharge as a primary while its store held other entries
C17_Witness ==
  /\ last.op = "Check"
  /\ Len(last.ms) = 1
  /\ last.ms[1].location = EmptyStr
  /\ last.ms[1].id = IdForS
  /\ IdForS \notin DOMAIN store
  /\ DOMAIN store # {}
  /\ last.err = VerificationError("macaroon not found in storage")


\* C16: with callers of NewMacaroon, AddCaveat, Check, CheckWithKey, CheckAny
\* and Discharge interleaved on one service, the location, key pair,
\* locator, encoder and store reference of the service stay the values
\* NewService was given, no step changes the service, and what a Check or
\* CheckAny returns is fixed by its arguments and by what the store held
\* when it called store.Get.
FieldsAsConstructed ==
  /\ service.location = ParamsS.Location
  /\ service.key = ParamsS.Key
  /\ service.locator = ParamsS.Locator
  /\ service.encoder = [key |-> ParamsS.Key]
  /\ service.hasStore = ParamsS.Store
Verified(t) == last[t] # Idle /\ last[t].op \in {"Check", "CheckAny"} /\ last[t].pc = "done"
FromSnapshot(t) ==
  last[t].err = IF last[t].op = "Check"
                THEN Check(NewService(ParamsS), last[t].snap, last[t].ms, last[t].checker).err
                ELSE CheckAny(NewService(ParamsS), last[t].snap, <<last[t].ms>>, EmptyMap,
                              last[t].checker).err
====
